---- MODULE Spec2Model ----
(***************************************************************************)
(* Model of the notebook hamiltonian_evolution_exponentiation.ipynb.       *)
(*                                                                         *)
(* The notebook has two code cells.  The first binds pauli_list.  The      *)
(* second defines the quantum function main (allocate, then                *)
(* exponentiation_with_depth_constraint), builds a model from it with      *)
(* create_model and hands the model to synthesize.                         *)
(*                                                                         *)
(* Numbers: every decimal of the notebook (0.1, 0.2, 0.4, 0.05) is held in *)
(* hundredths, so 0.1 is 10 and 0.05 is 5.  A coefficient is a complex     *)
(* number [re, im], both parts in hundredths.                              *)
(*                                                                         *)
(* Two specifications:                                                     *)
(*   Spec     the run of the notebook, statement by statement;             *)
(*   SpecSum  the weighted sum H = sum_i c_i P_i of the first markdown     *)
(*            cell, applied to term lists drawn from a bounded set and to  *)
(*            their reorderings.                                           *)
(***************************************************************************)
EXTENDS Integers, Sequences, FiniteSets

VARIABLES
    ip,          \* index of the next top-level statement of the notebook
    bp,          \* index of the next statement of main's body; 0 outside main
    defined,     \* names bound in the kernel's namespace
    pauli_list,  \* value of pauli_list (cell 1)
    qba,         \* the register declared by main
    calls,       \* argument records received by exponentiation_with_depth_constraint
    qmod,        \* value of qmod (result of create_model)
    qprog,       \* value of qprog (result of synthesize)
    steps,       \* history: the steps completed so far, in order
    original,    \* SpecSum: the term list as first given
    operator,    \* SpecSum: the same terms in their current order
    hamiltonian  \* SpecSum: the weighted sum of operator

vars == <<ip, bp, defined, pauli_list, qba, calls, qmod, qprog, steps,
          original, operator, hamiltonian>>

nbVars == <<ip, bp, defined, pauli_list, qba, calls, qmod, qprog, steps>>

sumVars == <<original, operator, hamiltonian>>

(***************************************************************************)
(* Bounds of the model.                                                    *)
(***************************************************************************)
\* Largest depth of a synthesized program the model enumerates.  The engine
\* behind synthesize is not part of the notebook; its result is any depth.
MaxSynthDepth == 100

\* Longest term list SpecSum draws.
MaxTerms == 4

(***************************************************************************)
(* Data of the notebook.                                                   *)
(***************************************************************************)
\* sigma_{0,1,2,3} = I, X, Y, Z
Pauli == {"I", "X", "Y", "Z"}

\* Variant of Real: the literal written as an imaginary number (0.1j).
Imaginary(h) == [re |-> 0, im |-> h]

\* A Python float literal used as a coefficient: a real number.
Real(h) == [re |-> h, im |-> 0]

Zero == [re |-> 0, im |-> 0]

Add(a, b) == [re |-> a.re + b.re, im |-> a.im + b.im]

Conj(a) == [re |-> a.re, im |-> 0 - a.im]

PauliTerm(p, c) == [pauli |-> p, coefficient |-> c]

\* Variant of PauliList: the two coefficients attached to the wrong strings.
PauliListCoefficientsSwapped ==
    << PauliTerm(<<"I", "Z">>, Real(20)),
       PauliTerm(<<"X", "Y">>, Real(10)) >>

\* pauli_list of cell 1.
PauliList ==
    << PauliTerm(<<"I", "Z">>, Real(10)),
       PauliTerm(<<"X", "Y">>, Real(20)) >>

\* allocate(4, qba)
NumQubits == 4

\* Variant of MainOperator: the last term written with three labels.
MainOperatorShortTerm ==
    << PauliTerm(<<"X", "X", "I", "I">>, Real(10)),
       PauliTerm(<<"Y", "Y", "I", "I">>, Real(20)),
       PauliTerm(<<"Z", "Z", "Y", "X">>, Real(40)),
       PauliTerm(<<"I", "I", "X">>, Real(40)) >>

\* The list literal passed as pauli_operator in main.
MainOperator ==
    << PauliTerm(<<"X", "X", "I", "I">>, Real(10)),
       PauliTerm(<<"Y", "Y", "I", "I">>, Real(20)),
       PauliTerm(<<"Z", "Z", "Y", "X">>, Real(40)),
       PauliTerm(<<"I", "I", "I", "X">>, Real(40)) >>

\* evolution_coefficient=0.05
MainEvolutionCoefficient == 5

\* Variant of MainMaxDepth: the bound written with the wrong sign.
MaxDepthNegated == 0 - 50

\* max_depth=50
MainMaxDepth == 50

(***************************************************************************)
(* H = sum_i c_i [sigma_{j1,i} (x) ... (x) sigma_{jn,i}]                   *)
(***************************************************************************)
Width(op) == IF op = <<>> THEN 0 ELSE Len(op[1].pauli)

PauliStrings(n) == [1..n -> Pauli]

\* The total of the coefficients of the terms of op whose string is s,
\* added up in the order of the list.
RECURSIVE Total(_, _)
Total(op, s) ==
    IF op = <<>> THEN Zero
    ELSE LET t == op[Len(op)]
             rest == Total(SubSeq(op, 1, Len(op) - 1), s)
         IN  IF t.pauli = s THEN Add(rest, t.coefficient) ELSE rest

\* Variant of Hamiltonian: a repeated string keeps the coefficient of its last
\* term instead of the total.
RECURSIVE LastCoefficient(_, _)
LastCoefficient(op, s) ==
    IF op = <<>> THEN Zero
    ELSE IF op[Len(op)].pauli = s THEN op[Len(op)].coefficient
    ELSE LastCoefficient(SubSeq(op, 1, Len(op) - 1), s)

HamiltonianLastWins(op) ==
    [s \in PauliStrings(Width(op)) |-> LastCoefficient(op, s)]

Hamiltonian(op) == [s \in PauliStrings(Width(op)) |-> Total(op, s)]

IsHermitian(h) == \A s \in DOMAIN h : Conj(h[s]) = h[s]

(***************************************************************************)
(* The run of the notebook.                                                *)
(***************************************************************************)
\* Top-level statements of the two code cells, in order.
CellProgram == <<"pauli_list", "def main", "create_model", "synthesize">>

\* Variant of MainBody: the two statements in the other order.
MainBodyCallFirst == <<"exponentiation_with_depth_constraint", "allocate">>

\* Statements of main's body, in order.
MainBody == <<"allocate", "exponentiation_with_depth_constraint">>

Stmt ==
    IF bp > 0 THEN (IF bp <= Len(MainBody) THEN MainBody[bp] ELSE "return")
    ELSE IF ip <= Len(CellProgram) THEN CellProgram[ip] ELSE "done"

NoRegister == [allocated |-> FALSE, size |-> 0]

NoModel == [entry |-> "", body |-> <<>>, calls |-> <<>>, out_file |-> ""]

NoProgram == [model |-> NoModel, depth |-> 0]

NbInit ==
    /\ ip = 1
    /\ bp = 0
    /\ defined = {}
    /\ pauli_list = <<>>
    /\ qba = NoRegister
    /\ calls = <<>>
    /\ qmod = NoModel
    /\ qprog = NoProgram
    /\ steps = <<>>

SumIdle ==
    /\ original = <<>>
    /\ operator = <<>>
    /\ hamiltonian = Hamiltonian(<<>>)

Init == NbInit /\ SumIdle

\* Cell 1: pauli_list = [PauliTerm(...), PauliTerm(...)]
BindPauliList ==
    /\ bp = 0 /\ Stmt = "pauli_list"
    /\ pauli_list' = PauliList
    /\ defined' = defined \cup {"pauli_list"}
    /\ ip' = ip + 1
    /\ UNCHANGED <<bp, qba, calls, qmod, qprog, steps>>

\* Cell 2: @qfunc def main(qba: Output[QArray[QBit]]).  The body does not run
\* here; qba is declared, not allocated.
DefineMain ==
    /\ bp = 0 /\ Stmt = "def main"
    /\ defined' = defined \cup {"main"}
    /\ ip' = ip + 1
    /\ UNCHANGED <<bp, pauli_list, qba, calls, qmod, qprog, steps>>

\* create_model(main, ...) is entered: main's body is expanded.
CreateModelCall ==
    /\ bp = 0 /\ Stmt = "create_model"
    /\ "main" \in defined
    /\ bp' = 1
    /\ UNCHANGED <<ip, defined, pauli_list, qba, calls, qmod, qprog, steps>>

\* allocate(4, qba)
Allocate ==
    /\ bp > 0 /\ Stmt = "allocate"
    /\ qba' = [allocated |-> TRUE, size |-> NumQubits]
    /\ steps' = Append(steps, "allocate")
    /\ bp' = bp + 1
    /\ UNCHANGED <<ip, defined, pauli_list, calls, qmod, qprog>>

\* exponentiation_with_depth_constraint([...], evolution_coefficient=0.05,
\*                                      max_depth=50, qbv=qba)
ExponentiationCall ==
    /\ bp > 0 /\ Stmt = "exponentiation_with_depth_constraint"
    /\ calls' = Append(calls, [pauli_operator |-> MainOperator,
                               evolution_coefficient |-> MainEvolutionCoefficient,
                               max_depth |-> MainMaxDepth,
                               qbv |-> qba])
    /\ steps' = Append(steps, "exponentiation_with_depth_constraint")
    /\ bp' = bp + 1
    /\ UNCHANGED <<ip, defined, pauli_list, qba, qmod, qprog>>

\* Variant of CreateModelReturn: building the model folds the evolution
\* coefficient into the terms of the list it was handed.
CreateModelReturnRescaling ==
    /\ bp > 0 /\ Stmt = "return"
    /\ qmod' = [entry |-> "main",
                body |-> steps,
                calls |-> calls,
                out_file |-> "hamiltonian_evolution_exponentiation"]
    /\ calls' = [k \in 1..Len(calls) |->
                    [calls[k] EXCEPT !.pauli_operator =
                        [j \in 1..Len(calls[k].pauli_operator) |->
                            PauliTerm(calls[k].pauli_operator[j].pauli,
                                      Real(calls[k].pauli_operator[j].coefficient.re
                                           * calls[k].evolution_coefficient))]]]
    /\ defined' = defined \cup {"qmod"}
    /\ steps' = Append(steps, "create_model")
    /\ bp' = 0
    /\ ip' = ip + 1
    /\ UNCHANGED <<pauli_list, qba, qprog>>

\* create_model returns: qmod = create_model(main, out_file=...)
CreateModelReturn ==
    /\ bp > 0 /\ Stmt = "return"
    /\ qmod' = [entry |-> "main",
                body |-> steps,
                calls |-> calls,
                out_file |-> "hamiltonian_evolution_exponentiation"]
    /\ defined' = defined \cup {"qmod"}
    /\ steps' = Append(steps, "create_model")
    /\ bp' = 0
    /\ ip' = ip + 1
    /\ UNCHANGED <<pauli_list, qba, calls, qprog>>

\* qprog = synthesize(qmod).  The program returned is the engine's choice.
Synthesize ==
    /\ bp = 0 /\ Stmt = "synthesize"
    /\ "qmod" \in defined
    /\ \E d \in 0..MaxSynthDepth :
           qprog' = [model |-> qmod, depth |-> d]
    /\ defined' = defined \cup {"qprog"}
    /\ steps' = Append(steps, "synthesize")
    /\ ip' = ip + 1
    /\ UNCHANGED <<bp, pauli_list, qba, calls, qmod>>

Next ==
    \/ BindPauliList /\ UNCHANGED sumVars
    \/ DefineMain /\ UNCHANGED sumVars
    \/ CreateModelCall /\ UNCHANGED sumVars
    \/ Allocate /\ UNCHANGED sumVars
    \/ ExponentiationCall /\ UNCHANGED sumVars
    \/ CreateModelReturn /\ UNCHANGED sumVars
    \/ Synthesize /\ UNCHANGED sumVars

Spec == Init /\ [][Next]_vars

Done == bp = 0 /\ Stmt = "done"

(***************************************************************************)
(* The weighted sum applied to bounded term lists and their reorderings.   *)
(***************************************************************************)
\* Terms on two qubits; the strings and coefficients of the example of the
\* first markdown cell, a repeated string, and a complex coefficient.
SumTerms ==
    { PauliTerm(s, c) : s \in {<<"I", "Z">>, <<"X", "Y">>},
                        c \in {Real(10), [re |-> 20, im |-> 10]} }

SumInputs ==
    UNION { [1..n -> SumTerms] : n \in 0..MaxTerms } \cup {PauliList, MainOperator}

InitSum ==
    /\ NbInit
    /\ original \in SumInputs
    /\ operator = original
    /\ hamiltonian = Hamiltonian(original)

\* The terms at positions i and i+1 change places; the sum is taken again.
SwapTerms(i) ==
    /\ operator' = [k \in 1..Len(operator) |->
                       IF k = i THEN operator[i + 1]
                       ELSE IF k = i + 1 THEN operator[i]
                       ELSE operator[k]]
    /\ hamiltonian' = Hamiltonian(operator')
    /\ UNCHANGED original

NextSum ==
    \E i \in 1..(Len(operator) - 1) : SwapTerms(i) /\ UNCHANGED nbVars

SpecSum == InitSum /\ [][NextSum]_vars

(***************************************************************************)
(* Properties of the run of the notebook (Spec).                           *)
(***************************************************************************)
IsPrefix(a, b) == Len(a) <= Len(b) /\ SubSeq(b, 1, Len(a)) = a

StepOrder ==
    <<"allocate", "exponentiation_with_depth_constraint", "create_model", "synthesize">>

\* C2: every Pauli term handed to exponentiation_with_depth_constraint has one
\* label per qubit of the target register: the register passed as qbv is the
\* one allocate(4, qba) created, the operator has four terms, each term has
\* four labels, and every label is one of I, X, Y, Z.
C2_TermsMatchRegister ==
    \A k \in 1..Len(calls) :
        /\ calls[k].qbv.allocated
        /\ calls[k].qbv.size = 4
        /\ calls[k].qbv = qba
        /\ Len(calls[k].pauli_operator) = 4
        /\ \A j \in 1..Len(calls[k].pauli_operator) :
               /\ Len(calls[k].pauli_operator[j].pauli) = calls[k].qbv.size
               /\ \A q \in 1..Len(calls[k].pauli_operator[j].pauli) :
                      calls[k].pauli_operator[j].pauli[q] \in Pauli

C2_Witness ==
    /\ Len(calls) = 1
    /\ qba.allocated
    /\ Len(calls[1].pauli_operator) = 4

\* C5: pauli_list, once bound, has exactly two terms, [I, Z] with coefficient
\* 0.1 and [X, Y] with coefficient 0.2, and the operator it denotes gives
\* 0.1 to IZ, 0.2 to XY and zero to every other two-qubit Pauli string.
C5_PauliListIsExample ==
    "pauli_list" \in defined =>
        /\ Len(pauli_list) = 2
        /\ \E i \in 1..2 : pauli_list[i] = PauliTerm(<<"I", "Z">>, [re |-> 10, im |-> 0])
        /\ \E i \in 1..2 : pauli_list[i] = PauliTerm(<<"X", "Y">>, [re |-> 20, im |-> 0])
        /\ Hamiltonian(pauli_list) =
               [s \in [1..2 -> Pauli] |->
                   IF s = <<"I", "Z">> THEN [re |-> 10, im |-> 0]
                   ELSE IF s = <<"X", "Y">> THEN [re |-> 20, im |-> 0]
                   ELSE [re |-> 0, im |-> 0]]

C5_Witness == "pauli_list" \in defined /\ Len(pauli_list) = 2

\* C6: the steps happen at most once each and in the order allocate,
\* exponentiation_with_depth_constraint, create_model, synthesize; when the
\* notebook has run to its end each has happened exactly once; the
\* exponentiation is applied to the allocated register qba; the model is built
\* from main; synthesize runs only after create_model has returned and
\* consumes the model it returned.
C6_LinearOrder ==
    /\ IsPrefix(steps, StepOrder)
    /\ Done => steps = StepOrder
    /\ \A k \in 1..Len(calls) : calls[k].qbv.allocated /\ calls[k].qbv = qba
    /\ "qmod" \in defined =>
           /\ qmod.entry = "main"
           /\ qmod.body = <<"allocate", "exponentiation_with_depth_constraint">>
    /\ "qprog" \in defined => "qmod" \in defined /\ qprog.model = qmod

C6_Witness ==
    /\ Done
    /\ steps = StepOrder
    /\ "qprog" \in defined

\* C7: the operator and the evolution parameters are passed to
\* exponentiation_with_depth_constraint at most once, by the end of the run
\* exactly once, as written in main; once passed, no later step changes them;
\* and once pauli_list is bound, no later step changes it.
C7_DataNeverChanged ==
    [][ /\ Len(calls') <= 1
        /\ Done' => Len(calls') = 1
        /\ \A k \in 1..Len(calls') :
               /\ calls'[k].pauli_operator = MainOperator
               /\ calls'[k].evolution_coefficient = MainEvolutionCoefficient
               /\ calls'[k].max_depth = MainMaxDepth
        /\ calls # <<>> => calls' = calls
        /\ "pauli_list" \in defined => pauli_list' = pauli_list
      ]_vars

C7_Witness ==
    /\ Done
    /\ Len(calls) = 1
    /\ calls[1].pauli_operator = MainOperator
    /\ pauli_list = PauliList

C9_CoefficientsReal ==
    /\ \A i \in 1..Len(pauli_list) : pauli_list[i].coefficient.im = 0
    /\ IsHermitian(Hamiltonian(pauli_list))
    /\ \A k \in 1..Len(calls) :
           /\ \A j \in 1..Len(calls[k].pauli_operator) :
                  calls[k].pauli_operator[j].coefficient.im = 0
           /\ IsHermitian(Hamiltonian(calls[k].pauli_operator))

C9_Witness ==
    /\ "pauli_list" \in defined
    /\ Len(calls) = 1
    /\ \E j \in 1..4 : calls[1].pauli_operator[j].coefficient.re = 40

(***************************************************************************)
(* Property of the weighted sum (SpecSum).                                 *)
(***************************************************************************)
\* C4: the operator denoted by a list of Pauli terms does not depend on the
\* order of the terms: after any reordering, the map from each Pauli string
\* to the total of its coefficients is the one of the list as first given.
C4_OrderIrrelevant == hamiltonian = Hamiltonian(original)

\* The four terms of main in the reverse order.
C4_Witness ==
    /\ original = MainOperator
    /\ operator = [k \in 1..4 |-> MainOperator[5 - k]]
    /\ hamiltonian = Hamiltonian(operator)

====
